---- MODULE Spec2Model ----
(***************************************************************************)
(* Model of src/src/football_simulation.py: PhysicsEngine (ray-cast        *)
(* interception), SetPieceManager (boundary classification and set-piece   *)
(* repositioning) and MatchSimulator (simulate_step, reset,                *)
(* get_training_data).                                                     *)
(*                                                                         *)
(* Coordinates.  The source works in metres with floats; the only          *)
(* non-integer literal is the ball's default x = 52.5.  The model keeps    *)
(* every coordinate as an integer number of half-metres, M(m) = 2*m, so    *)
(* [52.5, 34.0] is <<105, 68>> and the pitch is 210 x 136.  Arithmetic is  *)
(* exact.  The source's doubles round: on a lane such as [0,0]-[3,4] a     *)
(* defender at [4,2], exactly 2 m away, gets the distance                  *)
(* 1.9999999999999998.  The positions used below are chosen so that the    *)
(* double computation of dist < radius agrees with the exact one (lanes    *)
(* whose squared length is a power of two, or no defender at the radius).  *)
(*                                                                         *)
(* Randomness.  Every np.random draw of the source is an input of the      *)
(* action that makes it, chosen with \E from a small set of outcomes.      *)
(***************************************************************************)
EXTENDS Integers, Sequences, FiniteSets, TLC

VARIABLES
    ball,             \* MatchSimulator.ball.position
    possession_team,  \* MatchSimulator.possession_team (the team's name)
    game_state,       \* MatchSimulator.set_piece_manager.game_state
    events,           \* MatchSimulator.events
    position,         \* Player.position of every player, by player name
    calls,            \* history: simulate_step calls since construction / reset()
    last,             \* history: the operation just performed, its inputs and
                      \* the intermediate values it computed
    probe,            \* a direct call of a PhysicsEngine / SetPieceManager
                      \* method (as the unit tests make): inputs and result
    returned,         \* the list object the caller got from get_training_data():
                      \* "none" before a call, "log" while it is the object
                      \* self.events, "stale" once reset() has rebound self.events
    ball_alias        \* the holder that shares the list object ball.position
                      \* with the ball: "none", a player's name (the list is
                      \* that player's position) or "target" (the list is the
                      \* target_pos argument the caller passed)

vars == <<ball, possession_team, game_state, events, position, calls, last, probe,
          returned, ball_alias>>

simvars == <<ball, possession_team, game_state, events, position, calls, last,
             returned, ball_alias>>

-----------------------------------------------------------------------------
(* Bounds of the model *)

\* simulate_step is called at most MaxEvents times between two resets
MaxEvents == 2

\* direct calls of check_boundaries: points up to BoundaryMargin half-metres
\* on either side of each of the four lines
BoundaryMargin == 1

\* direct calls of check_interception: defender lists of at most MaxDefenders
MaxDefenders == 2

\* direct calls of check_interception: the defenders stand on the points
\* (x, y) metres with x, y in 0..ProbeGrid
ProbeGrid == 2

\* the distance calls take their points from a grid of (DistGrid + 2) x
\* (DistGrid + 1) points, 5 m apart
DistGrid == 3

-----------------------------------------------------------------------------
(* Units and values *)

\* metres -> half-metres
M(m) == 2 * m

\* an absent position (a None target_pos, no interceptor, no resolved position)
None == <<>>

\* the None player of check_interception's (False, None)
NoPlayer == 0 - 1

\* Ball.position default, [52.5, 34.0]
BallDefault == <<105, M(34)>>

\* pitch dimensions of check_boundaries: 105 x 68 metres
PitchLength == M(105)

PitchWidth == M(68)

\* default interception_radius of check_interception, 2.0 metres
InterceptionRadius == M(2)

-----------------------------------------------------------------------------
(* Teams: two teams with distinct names, as create_sample_team and the      *)
(* tests build them; a goalkeeper first, then the field players.            *)

HomeTeam == "Home"

AwayTeam == "Away"

Teams == {HomeTeam, AwayTeam}

\* the players a team can field, in roster order
FullRoster(team) ==
    IF team = HomeTeam THEN <<"Home_GK", "Home_P1">>
    ELSE <<"Away_GK", "Away_P1">>

AllPlayers == {FullRoster(t)[i] : t \in Teams, i \in 1..2}

\* a Player object exists for this name: the caller put it in a roster
OnRoster(p) == p \in DOMAIN position

\* Team.players, in roster order; the list is empty when the caller built
\* the team with players=[]
Players(team) == SelectSeq(FullRoster(team), OnRoster)

\* Player.position_role
PositionRole(p) ==
    CASE p = "Home_GK" -> "GK"
      [] p = "Away_GK" -> "GK"
      [] p = "Home_P1" -> "FWD"
      [] OTHER -> "DEF"

-----------------------------------------------------------------------------
(* PART 1: PhysicsEngine *)

Dot(u, v) == u[1] * v[1] + u[2] * v[2]

Sub(u, v) == <<u[1] - v[1], u[2] - v[2]>>

\* mutant: the closest point is taken to be the nearer end of the segment
GetDistanceToEndpoints(p, a, b) ==
    LET da == Dot(Sub(p, a), Sub(p, a))
        db == Dot(Sub(p, b), Sub(p, b))
    IN  [num |-> IF da <= db THEN da ELSE db, den |-> 1]

\* mutant: t is not clipped to [0, 1], so the distance is the one to the
\* line through a and b
GetDistanceToLine(p, a, b) ==
    LET ab == Sub(b, a)
        ap == Sub(p, a)
        len_sq == Dot(ab, ab)
        cross == ap[1] * ab[2] - ap[2] * ab[1]
    IN  IF len_sq = 0 THEN [num |-> Dot(ap, ap), den |-> 1]
        ELSE [num |-> cross * cross, den |-> len_sq]

\* get_distance_point_to_segment(p, a, b).  The source returns
\* sqrt(sum((p - closest)^2)); the model returns the exact square of that
\* distance as a fraction [num, den], den > 0.
\*   len_sq = 0:          closest = a
\*   t clipped to 0 / 1:  closest = a / b
\*   0 < t < 1:           closest = a + (dot/len_sq)*ab, and
\*     p - closest = (len_sq*ap - dot*ab)/len_sq
\*                 = cross * <<ab[2], -ab[1]>> / len_sq,
\*     with cross = ap[1]*ab[2] - ap[2]*ab[1], so the squared distance is
\*     cross^2 / len_sq.
GetDistancePointToSegment(p, a, b) ==
    LET ab == Sub(b, a)
        ap == Sub(p, a)
        len_sq == Dot(ab, ab)
        dot == Dot(ap, ab)
        cross == ap[1] * ab[2] - ap[2] * ab[1]
    IN  IF len_sq = 0 THEN [num |-> Dot(ap, ap), den |-> 1]
        ELSE IF dot <= 0 THEN [num |-> Dot(ap, ap), den |-> 1]
        ELSE IF dot >= len_sq THEN [num |-> Dot(Sub(p, b), Sub(p, b)), den |-> 1]
        ELSE [num |-> cross * cross, den |-> len_sq]

\* dist < r for a squared distance d = num/den and a radius r >= 0
DistLess(d, r) == d.num < r * r * d.den

\* dist <= r
DistLessEq(d, r) == d.num <= r * r * d.den

\* The loop of check_interception over defenders[i..], defenders being the
\* list of the defenders' positions: the index of the first defender with
\* dist < interception_radius, or 0 when the loop ends without one.
RECURSIVE ScanDefenders(_, _, _, _, _)
ScanDefenders(a, b, defenders, r, i) ==
    IF i > Len(defenders) THEN 0
    ELSE IF DistLess(GetDistancePointToSegment(defenders[i], a, b), r) THEN i
    ELSE ScanDefenders(a, b, defenders, r, i + 1)

\* mutant: the comparison is <= instead of <
RECURSIVE ScanDefendersLeq(_, _, _, _, _)
ScanDefendersLeq(a, b, defenders, r, i) ==
    IF i > Len(defenders) THEN 0
    ELSE IF DistLessEq(GetDistancePointToSegment(defenders[i], a, b), r) THEN i
    ELSE ScanDefendersLeq(a, b, defenders, r, i + 1)

CheckInterceptionLeq(pass_start, pass_end, defenders, interception_radius) ==
    LET i == ScanDefendersLeq(pass_start, pass_end, defenders, interception_radius, 1)
    IN  [intercepted |-> i # 0, defender |-> IF i # 0 THEN i ELSE NoPlayer]

\* check_interception(pass_start, pass_end, defenders, interception_radius):
\* (True, defender) or (False, None); the defender is given by its index in
\* the list.
CheckInterception(pass_start, pass_end, defenders, interception_radius) ==
    LET i == ScanDefenders(pass_start, pass_end, defenders, interception_radius, 1)
    IN  [intercepted |-> i # 0, defender |-> IF i # 0 THEN i ELSE NoPlayer]

-----------------------------------------------------------------------------
(* PART 2: SetPieceManager *)

\* mutant: the pitch's far lines are out of play (< instead of <=)
CheckBoundariesExclusive(ball_x, ball_y, coin) ==
    IF 0 <= ball_x /\ ball_x < PitchLength /\ 0 <= ball_y /\ ball_y < PitchWidth
    THEN "OPEN_PLAY"
    ELSE IF ball_x > PitchLength THEN (IF coin THEN "CORNER" ELSE "GOAL_KICK")
    ELSE IF ball_x < 0 THEN "CORNER"
    ELSE "THROW_IN"

\* mutant: the side lines are tested before the goal lines
CheckBoundariesSideFirst(ball_x, ball_y, coin) ==
    IF 0 <= ball_x /\ ball_x <= PitchLength /\ 0 <= ball_y /\ ball_y <= PitchWidth
    THEN "OPEN_PLAY"
    ELSE IF ball_y < 0 \/ ball_y > PitchWidth THEN "THROW_IN"
    ELSE IF ball_x > PitchLength THEN (IF coin THEN "CORNER" ELSE "GOAL_KICK")
    ELSE "CORNER"

\* check_boundaries(ball_x, ball_y); coin is the outcome of
\* np.random.random() > 0.5
CheckBoundaries(ball_x, ball_y, coin) ==
    IF 0 <= ball_x /\ ball_x <= PitchLength /\ 0 <= ball_y /\ ball_y <= PitchWidth
    THEN "OPEN_PLAY"
    ELSE IF ball_x > PitchLength THEN (IF coin THEN "CORNER" ELSE "GOAL_KICK")
    ELSE IF ball_x < 0 THEN "CORNER"
    ELSE "THROW_IN"

\* corner_side: 0 if np.random.random() < 0.5 else 68
CornerSides == {0, PitchWidth}

\* outcomes of [np.random.uniform(95, 104), np.random.uniform(20, 48)]
ScramblePositions == {<<M(98), M(41)>>}

\* the players of a roster that are given a random position by a loop of
\* resolve_set_piece
FieldPlayers(team) ==
    {Players(team)[i] : i \in {j \in 1..Len(Players(team)) : PositionRole(Players(team)[j]) # "GK"}}

\* the loop over attacking_team.players
ScrambleAttackers(pos, attacking_team, scr) ==
    [p \in DOMAIN pos |->
        IF p \in FieldPlayers(attacking_team) THEN scr[p] ELSE pos[p]]

\* mutant: the loop over the defending team has no goalkeeper branch, so
\* the defending goalkeeper stays where they were
ScrambleDefendersNoKeeper(pos, defending_team, scr) ==
    [p \in DOMAIN pos |->
        IF p \in FieldPlayers(defending_team) THEN scr[p] ELSE pos[p]]

\* the loop over defending_team.players
ScrambleDefenders(pos, defending_team, scr) ==
    [p \in DOMAIN pos |->
        IF p \in FieldPlayers(defending_team) THEN scr[p]
        ELSE IF \E i \in 1..Len(Players(defending_team)) : Players(defending_team)[i] = p
             THEN <<M(104), M(34)>>
        ELSE pos[p]]

\* mutant: the GOAL_KICK branch resets the teams to a formation, as the
\* comment at line 167 plans
ResolveSetPieceGoalKickFormation(state, attacking_team, defending_team, pos, side, scrA, scrD) ==
    IF state = "CORNER"
    THEN [ball_pos |-> <<PitchLength, side>>,
          position |-> ScrambleDefenders(ScrambleAttackers(pos, attacking_team, scrA),
                                         defending_team, scrD)]
    ELSE IF state = "GOAL_KICK"
    THEN [ball_pos |-> <<M(5), M(34)>>,
          position |-> [p \in DOMAIN pos |->
                           IF PositionRole(p) = "GK" THEN pos[p] ELSE <<M(30), M(34)>>]]
    ELSE [ball_pos |-> <<0, 0>>, position |-> pos]

\* mutant: the goal kick is placed 5 m behind the goal line
ResolveSetPieceGoalKickBehind(state, attacking_team, defending_team, pos, side, scrA, scrD) ==
    IF state = "CORNER"
    THEN [ball_pos |-> <<PitchLength, side>>,
          position |-> ScrambleDefenders(ScrambleAttackers(pos, attacking_team, scrA),
                                         defending_team, scrD)]
    ELSE IF state = "GOAL_KICK"
    THEN [ball_pos |-> <<M(0 - 5), M(34)>>, position |-> pos]
    ELSE [ball_pos |-> <<0, 0>>, position |-> pos]

\* mutant: a throw-in brings the field players of the attacking team to the
\* ball
ResolveSetPieceThrowInMoves(state, attacking_team, defending_team, pos, side, scrA, scrD) ==
    IF state = "CORNER"
    THEN [ball_pos |-> <<PitchLength, side>>,
          position |-> ScrambleDefenders(ScrambleAttackers(pos, attacking_team, scrA),
                                         defending_team, scrD)]
    ELSE IF state = "GOAL_KICK"
    THEN [ball_pos |-> <<M(5), M(34)>>, position |-> pos]
    ELSE [ball_pos |-> <<0, 0>>,
          position |-> [p \in DOMAIN pos |->
                           IF p \in FieldPlayers(attacking_team) THEN <<0, 0>>
                           ELSE pos[p]]]

\* resolve_set_piece(state, attacking_team, defending_team): the returned
\* ball position and the players' positions it leaves.  side, scrA and scrD
\* are the random draws of the CORNER branch.
ResolveSetPiece(state, attacking_team, defending_team, pos, side, scrA, scrD) ==
    IF state = "CORNER"
    THEN [ball_pos |-> <<PitchLength, side>>,
          position |-> ScrambleDefenders(ScrambleAttackers(pos, attacking_team, scrA),
                                         defending_team, scrD)]
    ELSE IF state = "GOAL_KICK"
    THEN [ball_pos |-> <<M(5), M(34)>>, position |-> pos]
    ELSE [ball_pos |-> <<0, 0>>, position |-> pos]

-----------------------------------------------------------------------------
(* PART 3: MatchSimulator *)

GameStates == {"OPEN_PLAY", "CORNER", "GOAL_KICK", "THROW_IN"}

\* target_pos values a caller passes (None: the argument is left out):
\* inside the pitch, beyond the opponent's goal line, behind the own goal
\* line, beyond a side line
TargetPositions ==
    {<<M(70), M(34)>>, <<M(110), M(34)>>, <<M(-5), M(34)>>, <<M(50), M(75)>>}

Targets == {None} \cup TargetPositions

\* the simulate_step calls a caller makes: every PASS, and each other
\* action string with and without a target ("TACKLE" stands for any string
\* the dispatch of simulate_step does not know)
StepCalls ==
    {<<"PASS", t>> : t \in Targets}
    \cup {<<"SHOOT", None>>, <<"SHOOT", <<M(110), M(34)>>>>}
    \cup {<<"DRIBBLE", None>>, <<"DRIBBLE", <<M(50), M(75)>>>>}
    \cup {<<"TACKLE", None>>, <<"TACKLE", <<M(70), M(34)>>>>}

\* ball positions a caller stages by assigning simulator.ball.position
StagedPositions == {<<M(40), M(34)>>}

\* positions the caller gives the away field player before construction
DefenderStarts == {<<M(52), M(34)>>, <<M(108), M(34)>>}

\* mutant: the comparison is inverted, so the "defending" team is the one
\* in possession
DefendingTeamSame(possession) ==
    IF possession = HomeTeam THEN HomeTeam ELSE AwayTeam

\* defending_team = away if possession_team == home_team else home
DefendingTeam(possession) ==
    IF possession = HomeTeam THEN AwayTeam ELSE HomeTeam

\* [p.position for p in team.players]
PlayerPositions(team, pos) ==
    [i \in 1..Len(Players(team)) |-> pos[Players(team)[i]]]

\* the result field of an event of the log, "none" when it has none
ResultOfAction(event) == IF "result" \in DOMAIN event THEN event.result ELSE "none"

\* ball.position is a list no other holder shares
NoAlias == "none"

\* mutant: the position is assigned without .copy(), so the ball shares the
\* list of holder
CopyShared(holder) == holder

\* holder's list .copy(): a new list that no other holder shares
Copy(holder) == NoAlias

\* the holder that shares ball.position after the action phase, from the
\* fields the phase added to the event: after an interception the list is
\* defender.position.copy(), after SUCCESS, SHOT and DRIBBLE it is
\* target_pos.copy(), and a phase that matches no branch leaves the list
\* (and so prior) as it was
BallAliasAfterAction(fields, prior) ==
    IF "interceptor" \in DOMAIN fields THEN Copy(fields.interceptor)
    ELSE IF "result" \in DOMAIN fields THEN Copy("target")
    ELSE prior

\* mutant: an interception leaves the ball at the pass target
ActionHandlingBallToTarget(action, target_pos, b, possession, defending_team, pos) ==
    IF action = "PASS" /\ target_pos # None
    THEN LET ci == CheckInterception(b, target_pos,
                       PlayerPositions(defending_team, pos), InterceptionRadius)
         IN  IF ci.intercepted
             THEN [ball |-> target_pos,
                   possession_team |-> defending_team,
                   fields |-> ("result" :> "INTERCEPTED") @@
                              ("interceptor" :> Players(defending_team)[ci.defender]),
                   interceptor_pos |-> pos[Players(defending_team)[ci.defender]]]
             ELSE [ball |-> target_pos, possession_team |-> possession,
                   fields |-> ("result" :> "SUCCESS"), interceptor_pos |-> None]
    ELSE IF action = "SHOOT" /\ target_pos # None
    THEN [ball |-> target_pos, possession_team |-> possession,
          fields |-> ("result" :> "SHOT"), interceptor_pos |-> None]
    ELSE IF action = "DRIBBLE" /\ target_pos # None
    THEN [ball |-> target_pos, possession_team |-> possession,
          fields |-> ("result" :> "DRIBBLE"), interceptor_pos |-> None]
    ELSE [ball |-> b, possession_team |-> possession,
          fields |-> <<>>, interceptor_pos |-> None]

\* mutant: a shot or a dribble is subject to the interception check too
ActionHandlingAllIntercepted(action, target_pos, b, possession, defending_team, pos) ==
    IF action \in {"PASS", "SHOOT", "DRIBBLE"} /\ target_pos # None
    THEN LET ci == CheckInterception(b, target_pos,
                       PlayerPositions(defending_team, pos), InterceptionRadius)
         IN  IF ci.intercepted
             THEN [ball |-> pos[Players(defending_team)[ci.defender]],
                   possession_team |-> defending_team,
                   fields |-> ("result" :> "INTERCEPTED") @@
                              ("interceptor" :> Players(defending_team)[ci.defender]),
                   interceptor_pos |-> pos[Players(defending_team)[ci.defender]]]
             ELSE [ball |-> target_pos, possession_team |-> possession,
                   fields |-> ("result" :>
                                  CASE action = "PASS" -> "SUCCESS"
                                    [] action = "SHOOT" -> "SHOT"
                                    [] OTHER -> "DRIBBLE"),
                   interceptor_pos |-> None]
    ELSE [ball |-> b, possession_team |-> possession,
          fields |-> <<>>, interceptor_pos |-> None]

\* mutant: an action of an unknown kind moves the ball to its target
ActionHandlingUnknownMoves(action, target_pos, b, possession, defending_team, pos) ==
    IF action = "PASS" /\ target_pos # None
    THEN LET ci == CheckInterception(b, target_pos,
                       PlayerPositions(defending_team, pos), InterceptionRadius)
         IN  IF ci.intercepted
             THEN [ball |-> pos[Players(defending_team)[ci.defender]],
                   possession_team |-> defending_team,
                   fields |-> ("result" :> "INTERCEPTED") @@
                              ("interceptor" :> Players(defending_team)[ci.defender]),
                   interceptor_pos |-> pos[Players(defending_team)[ci.defender]]]
             ELSE [ball |-> target_pos, possession_team |-> possession,
                   fields |-> ("result" :> "SUCCESS"), interceptor_pos |-> None]
    ELSE IF action = "SHOOT" /\ target_pos # None
    THEN [ball |-> target_pos, possession_team |-> possession,
          fields |-> ("result" :> "SHOT"), interceptor_pos |-> None]
    ELSE IF action = "DRIBBLE" /\ target_pos # None
    THEN [ball |-> target_pos, possession_team |-> possession,
          fields |-> ("result" :> "DRIBBLE"), interceptor_pos |-> None]
    ELSE [ball |-> IF target_pos # None THEN target_pos ELSE b,
          possession_team |-> possession,
          fields |-> <<>>, interceptor_pos |-> None]

\* mutant: an interception records its result but not the interceptor
ActionHandlingNoInterceptorField(action, target_pos, b, possession, defending_team, pos) ==
    IF action = "PASS" /\ target_pos # None
    THEN LET ci == CheckInterception(b, target_pos,
                       PlayerPositions(defending_team, pos), InterceptionRadius)
         IN  IF ci.intercepted
             THEN [ball |-> pos[Players(defending_team)[ci.defender]],
                   possession_team |-> defending_team,
                   fields |-> ("result" :> "INTERCEPTED"),
                   interceptor_pos |-> pos[Players(defending_team)[ci.defender]]]
             ELSE [ball |-> target_pos, possession_team |-> possession,
                   fields |-> ("result" :> "SUCCESS"), interceptor_pos |-> None]
    ELSE IF action = "SHOOT" /\ target_pos # None
    THEN [ball |-> target_pos, possession_team |-> possession,
          fields |-> ("result" :> "SHOT"), interceptor_pos |-> None]
    ELSE IF action = "DRIBBLE" /\ target_pos # None
    THEN [ball |-> target_pos, possession_team |-> possession,
          fields |-> ("result" :> "DRIBBLE"), interceptor_pos |-> None]
    ELSE [ball |-> b, possession_team |-> possession,
          fields |-> <<>>, interceptor_pos |-> None]

\* mutant: a PASS against a team without players is lost: the defending
\* team takes possession and the result is INTERCEPTED
ActionHandlingNeedsDefenders(action, target_pos, b, possession, defending_team, pos) ==
    IF action = "PASS" /\ target_pos # None
    THEN LET ci == CheckInterception(b, target_pos,
                       PlayerPositions(defending_team, pos), InterceptionRadius)
         IN  IF ci.intercepted
             THEN [ball |-> pos[Players(defending_team)[ci.defender]],
                   possession_team |-> defending_team,
                   fields |-> ("result" :> "INTERCEPTED") @@
                              ("interceptor" :> Players(defending_team)[ci.defender]),
                   interceptor_pos |-> pos[Players(defending_team)[ci.defender]]]
             ELSE IF Players(defending_team) = <<>>
             THEN [ball |-> b, possession_team |-> defending_team,
                   fields |-> ("result" :> "INTERCEPTED"), interceptor_pos |-> None]
             ELSE [ball |-> target_pos, possession_team |-> possession,
                   fields |-> ("result" :> "SUCCESS"), interceptor_pos |-> None]
    ELSE IF action = "SHOOT" /\ target_pos # None
    THEN [ball |-> target_pos, possession_team |-> possession,
          fields |-> ("result" :> "SHOT"), interceptor_pos |-> None]
    ELSE IF action = "DRIBBLE" /\ target_pos # None
    THEN [ball |-> target_pos, possession_team |-> possession,
          fields |-> ("result" :> "DRIBBLE"), interceptor_pos |-> None]
    ELSE [ball |-> b, possession_team |-> possession,
          fields |-> <<>>, interceptor_pos |-> None]

\* The ACTION HANDLING block of simulate_step: the ball and the possession
\* it leaves and the fields it adds to the event.  interceptor_pos is the
\* position of the intercepting defender at that moment (None without one).
ActionHandling(action, target_pos, b, possession, defending_team, pos) ==
    IF action = "PASS" /\ target_pos # None
    THEN LET ci == CheckInterception(b, target_pos,
                       PlayerPositions(defending_team, pos), InterceptionRadius)
         IN  IF ci.intercepted
             THEN [ball |-> pos[Players(defending_team)[ci.defender]],
                   possession_team |-> defending_team,
                   fields |-> ("result" :> "INTERCEPTED") @@
                              ("interceptor" :> Players(defending_team)[ci.defender]),
                   interceptor_pos |-> pos[Players(defending_team)[ci.defender]]]
             ELSE [ball |-> target_pos, possession_team |-> possession,
                   fields |-> ("result" :> "SUCCESS"), interceptor_pos |-> None]
    ELSE IF action = "SHOOT" /\ target_pos # None
    THEN [ball |-> target_pos, possession_team |-> possession,
          fields |-> ("result" :> "SHOT"), interceptor_pos |-> None]
    ELSE IF action = "DRIBBLE" /\ target_pos # None
    THEN [ball |-> target_pos, possession_team |-> possession,
          fields |-> ("result" :> "DRIBBLE"), interceptor_pos |-> None]
    ELSE [ball |-> b, possession_team |-> possession,
          fields |-> <<>>, interceptor_pos |-> None]

\* mutant: the else branch of the boundary check is missing, so the state
\* of an earlier stoppage stays
NextGameStateSticky(new_state, old_state) ==
    IF new_state # "OPEN_PLAY" THEN new_state ELSE old_state

\* mutant: the set-piece branch does not store the new state
NextGameStateAlwaysOpen(new_state, old_state) == "OPEN_PLAY"

\* the value simulate_step assigns to set_piece_manager.game_state in the
\* two branches of the BOUNDARY CHECK block
NextGameState(new_state, old_state) ==
    IF new_state # "OPEN_PLAY" THEN new_state ELSE "OPEN_PLAY"

\* mutant: an event without a result is not logged
AppendEventIfResult(log, event) ==
    IF "result" \in DOMAIN event THEN Append(log, event) ELSE log

\* mutant: the event is inserted at the head of the log
AppendEventAtHead(log, event) == <<event>> \o log

\* mutant: the game_state stamp is taken after the boundary check
AppendEventStampedAfter(log, event) ==
    Append(log, [event EXCEPT !.game_state =
                     IF "set_piece" \in DOMAIN event THEN event.set_piece
                     ELSE "OPEN_PLAY"])

\* self.events.append(event)
AppendEvent(log, event) == Append(log, event)

\* the outcomes of the draw np.random.random() > 0.5 that check_boundaries
\* makes for a ball at x (none is made unless x > 105)
CoinDraws(ball_x) == IF ball_x > PitchLength THEN BOOLEAN ELSE {FALSE}

\* the outcomes of the corner_side draw of resolve_set_piece (made for a
\* CORNER only)
SideDraws(state) == IF state = "CORNER" THEN CornerSides ELSE {0}

\* the outcomes of the position draws of one loop of resolve_set_piece over
\* the roster of team (made for a CORNER only)
ScrambleDraws(state, team) ==
    IF state = "CORNER" THEN [FieldPlayers(team) -> ScramblePositions] ELSE {<<>>}

\* The body of simulate_step(action, target_pos), from the pre-state stamp
\* to the append and the return.  act is the outcome of the action phase
\* (the one element of its set, so that it is computed once); coin is the
\* draw of check_boundaries; side, scrA and scrD are the draws of
\* resolve_set_piece.
SimulateStepBody(action, target_pos) ==
    /\ Len(events) < MaxEvents
    /\ LET defending_team == DefendingTeam(possession_team)
       IN  \E act \in {ActionHandling(action, target_pos, ball, possession_team,
                                      defending_team, position)} :
           \E coin \in CoinDraws(act.ball[1]) :
           LET new_state == CheckBoundaries(act.ball[1], act.ball[2], coin)
               out == new_state # "OPEN_PLAY"
           IN  \E side \in SideDraws(new_state),
                  scrA \in ScrambleDraws(new_state, act.possession_team),
                  scrD \in ScrambleDraws(new_state, defending_team) :
               LET res == ResolveSetPiece(new_state, act.possession_team,
                                          defending_team, position, side, scrA, scrD)
                   ball_after == IF out THEN res.ball_pos ELSE act.ball
                   event == [action |-> action,
                             ball_pos_before |-> ball,
                             possession_before |-> possession_team,
                             game_state |-> game_state,
                             ball_pos_after |-> ball_after,
                             possession_after |-> act.possession_team]
                            @@ act.fields
                            @@ (IF out THEN ("set_piece" :> new_state) ELSE <<>>)
               IN  /\ ball' = ball_after
                   /\ ball_alias' = IF out THEN NoAlias
                                    ELSE BallAliasAfterAction(act.fields, ball_alias)
                   /\ possession_team' = act.possession_team
                   /\ position' = IF out THEN res.position ELSE position
                   /\ game_state' = NextGameState(new_state, game_state)
                   /\ events' = AppendEvent(events, event)
                   /\ calls' = calls + 1
                   /\ last' = [op |-> "simulate_step",
                               action |-> action,
                               target_pos |-> target_pos,
                               ball_before |-> ball,
                               possession_before |-> possession_team,
                               attacking_team |-> act.possession_team,
                               defending_team |-> defending_team,
                               position_before |-> position,
                               ball_action |-> act.ball,
                               interceptor_pos |-> act.interceptor_pos,
                               new_state |-> new_state,
                               resolved |-> IF out THEN res.ball_pos ELSE None,
                               event |-> event]
    /\ UNCHANGED <<probe, returned>>

\* mutant: PASS, SHOOT and DRIBBLE copy their target without the
\* `and target_pos` guard, so a call without a target raises before an
\* event is logged
SimulateStepTargetRequired(action, target_pos) ==
    /\ ~(action \in {"PASS", "SHOOT", "DRIBBLE"} /\ target_pos = None)
    /\ SimulateStepBody(action, target_pos)

\* simulate_step(action, target_pos): the method has no raise statement and
\* no early return, so every call runs its body to the end
SimulateStep(action, target_pos) == SimulateStepBody(action, target_pos)

\* get_training_data(): returns self.events
get_training_data == events

\* the caller calls get_training_data() and keeps what it returns: the list
\* object self.events itself (line 299 makes no copy)
GetTrainingData ==
    /\ returned' = "log"
    /\ last' = [op |-> "get_training_data", value |-> get_training_data]
    /\ UNCHANGED <<ball, possession_team, game_state, events, position, calls, probe,
                   ball_alias>>

\* the entry the caller appends to the list it holds
CallerEntry == [action |-> "CALLER"]

\* the caller appends an entry to the list get_training_data() returned:
\* while that list is self.events, the entry is in the simulator's log
AppendToReturned ==
    /\ returned # "none"
    /\ Len(events) < MaxEvents
    /\ events' = IF returned = "log" THEN Append(events, CallerEntry) ELSE events
    /\ last' = [op |-> "append_to_returned", events_before |-> events]
    /\ UNCHANGED <<ball, possession_team, game_state, position, calls, probe, returned,
                   ball_alias>>

\* self.events = []: the attribute is bound to a new list, so a list the
\* caller got from get_training_data() is the log no longer
RebindEvents(r) == IF r = "log" THEN "stale" ELSE r

\* mutant: reset() forgets the set-piece manager
ResetKeepsGameState ==
    /\ ball' = BallDefault
    /\ possession_team' = HomeTeam
    /\ game_state' = game_state
    /\ events' = <<>>
    /\ calls' = 0
    /\ last' = [op |-> "reset", game_state_before |-> game_state]
    /\ returned' = RebindEvents(returned)
    /\ ball_alias' = NoAlias
    /\ UNCHANGED <<position, probe>>

\* mutant: reset() sends every player back to a kick-off formation
ResetMovesPlayers ==
    /\ ball' = BallDefault
    /\ possession_team' = HomeTeam
    /\ game_state' = "OPEN_PLAY"
    /\ events' = <<>>
    /\ calls' = 0
    /\ last' = [op |-> "reset", game_state_before |-> game_state]
    /\ returned' = RebindEvents(returned)
    /\ ball_alias' = NoAlias
    /\ position' = [p \in AllPlayers |->
                       IF PositionRole(p) = "GK" THEN position[p]
                       ELSE <<M(40), M(34)>>]
    /\ UNCHANGED probe

\* reset()
Reset ==
    /\ ball' = BallDefault
    /\ possession_team' = HomeTeam
    /\ game_state' = "OPEN_PLAY"
    /\ events' = <<>>
    /\ calls' = 0
    /\ last' = [op |-> "reset", game_state_before |-> game_state]
    /\ returned' = RebindEvents(returned)
    /\ ball_alias' = NoAlias
    /\ UNCHANGED <<position, probe>>

\* the caller assigns simulator.ball.position before a step
SetBallPosition(p) ==
    /\ ball # p
    /\ ball' = p
    /\ ball_alias' = NoAlias
    /\ last' = [op |-> "set_ball"]
    /\ UNCHANGED <<possession_team, game_state, events, position, calls, probe,
                   returned>>

NoProbe == [op |-> "none"]

\* MatchSimulator(home_team, away_team), the teams built by the caller
\* with the away field player at d
SimInitWith(d, names) ==
    /\ ball = BallDefault
    /\ possession_team = HomeTeam
    /\ game_state = "OPEN_PLAY"
    /\ events = <<>>
    /\ position = [p \in names |->
                      CASE p = "Home_GK" -> <<M(5), M(34)>>
                        [] p = "Home_P1" -> <<M(40), M(34)>>
                        [] p = "Away_GK" -> <<M(100), M(30)>>
                        [] OTHER -> d]
    /\ calls = 0
    /\ last = [op |-> "init"]
    /\ returned = "none"
    /\ ball_alias = NoAlias

SimInit(d) == SimInitWith(d, AllPlayers)

Init ==
    /\ \E d \in DefenderStarts : SimInit(d)
    /\ probe = NoProbe

Next ==
    \/ \E c \in StepCalls : SimulateStep(c[1], c[2])
    \/ Reset
    \/ \E p \in StagedPositions : SetBallPosition(p)

Spec == Init /\ [][Next]_vars

\* ball positions the caller stages before the first step, as setUp of
\* TestMatchSimulator does: one on the pitch and one beyond either goal line
StagedBalls == {<<M(40), M(34)>>, <<M(110), M(34)>>, <<M(-5), M(34)>>}

\* the caller assigns simulator.ball.position before the first step after
\* construction or reset()
StageBall(p) ==
    /\ events = <<>>
    /\ SetBallPosition(p)

NextStaged ==
    \/ \E c \in StepCalls : SimulateStep(c[1], c[2])
    \/ Reset
    \/ \E p \in StagedBalls : StageBall(p)

\* the simulator with a ball staged anywhere, also off the pitch
SpecStaged == Init /\ [][NextStaged]_vars

\* the teams the caller built with players=[]: one of them or both
EmptyTeams == SUBSET Teams \ {{}}

\* MatchSimulator(home_team, away_team) where the teams in empty have no
\* players
InitEmpty ==
    /\ \E empty \in EmptyTeams, d \in DefenderStarts :
           SimInitWith(d, {p \in AllPlayers :
                              \A t \in empty : \A i \in 1..2 : FullRoster(t)[i] # p})
    /\ probe = NoProbe

\* the simulator with at least one empty roster
SpecEmpty == InitEmpty /\ [][Next]_vars

\* the passes the caller of NextCaller makes
CallerCalls == {c \in StepCalls : c[1] = "PASS"}

NextCaller ==
    \/ \E c \in CallerCalls : SimulateStep(c[1], c[2])
    \/ Reset
    \/ GetTrainingData
    \/ AppendToReturned

\* the simulator and a caller that reads the log and uses what it got
SpecCaller == Init /\ [][NextCaller]_vars

\* the coordinates the caller of NextAlias writes into a list it holds
EditedPositions == {<<M(60), M(20)>>}

\* the caller changes the coordinates of a player's position list in place
\* (player.position[0] = x): whoever shares the list sees the change
MovePlayerInPlace(p, q) ==
    /\ position[p] # q
    /\ position' = [position EXCEPT ![p] = q]
    /\ ball' = IF ball_alias = p THEN q ELSE ball
    /\ last' = [op |-> "move_player", player |-> p]
    /\ UNCHANGED <<possession_team, game_state, events, calls, probe, returned,
                   ball_alias>>

\* the caller changes the coordinates of the target list it passed to the
\* last step, which moved the ball to that target
EditTargetInPlace(q) ==
    /\ events # <<>>
    /\ ResultOfAction(events[Len(events)]) \in {"SUCCESS", "SHOT", "DRIBBLE"}
    /\ last.op # "edit_target"
    /\ ball' = IF ball_alias = "target" THEN q ELSE ball
    /\ last' = [op |-> "edit_target"]
    /\ UNCHANGED <<possession_team, game_state, events, position, calls, probe,
                   returned, ball_alias>>

\* the steps the caller of NextAlias makes
AliasCalls ==
    {<<"PASS", <<M(70), M(34)>>>>, <<"SHOOT", <<M(110), M(34)>>>>,
     <<"DRIBBLE", <<M(50), M(75)>>>>, <<"TACKLE", None>>}

NextAlias ==
    \/ \E c \in AliasCalls : SimulateStep(c[1], c[2])
    \/ Reset
    \/ \E p \in AllPlayers, q \in EditedPositions : MovePlayerInPlace(p, q)
    \/ \E q \in EditedPositions : EditTargetInPlace(q)

\* the simulator and a caller that changes, in place, position lists it
\* shares with the simulator
SpecAlias == Init /\ [][NextAlias]_vars

-----------------------------------------------------------------------------
(* Direct calls of PhysicsEngine.check_interception and                     *)
(* SetPieceManager.check_boundaries, as the unit tests make them.           *)

\* the pass of a direct call starts at the origin and ends there (a pass of
\* length zero), along the goal line, or on the diagonal
ProbeEnds == {<<0, 0>>, <<M(4), 0>>, <<M(4), M(4)>>}

ProbePoints == {<<M(x), M(y)>> : x \in 0..ProbeGrid, y \in 0..ProbeGrid}

ProbeRadii == {0, M(1), M(2)}

RECURSIVE SeqsUpTo(_, _)
SeqsUpTo(S, n) ==
    IF n = 0 THEN {<<>>}
    ELSE LET shorter == SeqsUpTo(S, n - 1)
         IN  shorter \cup {Append(q, x) : q \in {t \in shorter : Len(t) = n - 1}, x \in S}

ProbeDefenders == SeqsUpTo(ProbePoints, MaxDefenders)

\* x coordinates around both goal lines and at mid-pitch, in half-metres
ProbeXs ==
    (0 - BoundaryMargin .. BoundaryMargin)
    \cup (PitchLength - BoundaryMargin .. PitchLength + BoundaryMargin)
    \cup {BallDefault[1]}

\* y coordinates around both side lines and at mid-pitch, in half-metres
ProbeYs ==
    (0 - BoundaryMargin .. BoundaryMargin)
    \cup (PitchWidth - BoundaryMargin .. PitchWidth + BoundaryMargin)
    \cup {BallDefault[2]}

\* the points of the distance calls: a grid of 5 m steps that holds the
\* points of the distance tests of TestPhysicsEngine
DistPoints == {<<M(5 * i), M(5 * j)>> : i \in (0 - 1)..DistGrid, j \in 0..DistGrid}

\* the segments of the distance calls: the two lanes of the distance tests,
\* a lane from a to itself, and the horizontal lane turned upright
DistSegments ==
    {<<<<0, 0>>, <<M(10), M(10)>>>>, <<<<0, M(5)>>, <<M(10), M(5)>>>>,
     <<<<0, 0>>, <<0, 0>>>>, <<<<M(5), M(10)>>, <<M(5), 0>>>>}

\* outcomes of [np.random.uniform(95, 104), np.random.uniform(20, 48)] in
\* the direct calls of resolve_set_piece: the two ends of the half-open
\* ranges, to the half-metre
ScrambleSamples == {<<M(95), M(20)>>, <<M(104) - 1, M(48) - 1>>}

\* the outcomes of the position draws of one loop of resolve_set_piece over
\* the roster of team, in a direct call
ScrambleSampleDraws(state, team) ==
    IF state = "CORNER" THEN [FieldPlayers(team) -> ScrambleSamples] ELSE {<<>>}

\* the arguments of the direct calls
ProbeCalls ==
    [op : {"check_interception"}, done : {FALSE}, pass_start : {<<0, 0>>},
     pass_end : ProbeEnds, defenders : ProbeDefenders,
     interception_radius : ProbeRadii]
    \cup [op : {"check_boundaries"}, done : {FALSE}, ball_x : ProbeXs, ball_y : ProbeYs]
    \cup {[op |-> "get_distance_point_to_segment", done |-> FALSE,
           p |-> p, a |-> s[1], b |-> s[2]] : p \in DistPoints, s \in DistSegments}
    \cup [op : {"resolve_set_piece"}, done : {FALSE},
          state : GameStates \ {"OPEN_PLAY"},
          attacking_team : Teams, defending_team : Teams]

\* PhysicsEngine.check_interception(pass_start, pass_end, defenders, r)
CheckInterceptionCall ==
    /\ probe.op = "check_interception"
    /\ ~probe.done
    /\ LET ci == CheckInterception(probe.pass_start, probe.pass_end,
                                   probe.defenders, probe.interception_radius)
       IN  probe' = [probe EXCEPT !.done = TRUE]
                    @@ [intercepted |-> ci.intercepted, defender |-> ci.defender]
    /\ UNCHANGED simvars

\* mutant: check_boundaries stores the state it returns in self.game_state
CheckBoundariesCallStoring ==
    /\ probe.op = "check_boundaries"
    /\ ~probe.done
    /\ \E coin \in CoinDraws(probe.ball_x) :
         /\ probe' = [probe EXCEPT !.done = TRUE]
                     @@ [result |-> CheckBoundaries(probe.ball_x, probe.ball_y, coin)]
         /\ game_state' = CheckBoundaries(probe.ball_x, probe.ball_y, coin)
    /\ UNCHANGED <<ball, possession_team, events, position, calls, last, returned,
                   ball_alias>>

\* set_piece_manager.check_boundaries(ball_x, ball_y)
CheckBoundariesCall ==
    /\ probe.op = "check_boundaries"
    /\ ~probe.done
    /\ \E coin \in CoinDraws(probe.ball_x) :
         probe' = [probe EXCEPT !.done = TRUE]
                  @@ [result |-> CheckBoundaries(probe.ball_x, probe.ball_y, coin)]
    /\ UNCHANGED simvars

\* PhysicsEngine.get_distance_point_to_segment(p, a, b)
GetDistanceCall ==
    /\ probe.op = "get_distance_point_to_segment"
    /\ ~probe.done
    /\ probe' = [probe EXCEPT !.done = TRUE]
                 @@ [result |-> GetDistancePointToSegment(probe.p, probe.a, probe.b)]
    /\ UNCHANGED simvars

\* set_piece_manager.resolve_set_piece(state, attacking_team, defending_team)
\* on the teams of the simulator: it returns ball_pos and moves the players
ResolveSetPieceCall ==
    /\ probe.op = "resolve_set_piece"
    /\ ~probe.done
    /\ \E side \in SideDraws(probe.state),
          scrA \in ScrambleSampleDraws(probe.state, probe.attacking_team),
          scrD \in ScrambleSampleDraws(probe.state, probe.defending_team) :
          LET res == ResolveSetPiece(probe.state, probe.attacking_team,
                                     probe.defending_team, position, side, scrA, scrD)
          IN  /\ probe' = [probe EXCEPT !.done = TRUE]
                           @@ [ball_pos |-> res.ball_pos, position_before |-> position]
              /\ position' = res.position
    /\ UNCHANGED <<ball, possession_team, game_state, events, calls, last, returned,
                   ball_alias>>

\* the simulator as constructed, and the arguments of one direct call
InitUnits ==
    /\ SimInit(<<M(52), M(34)>>)
    /\ probe \in ProbeCalls

NextUnits ==
    \/ CheckInterceptionCall
    \/ CheckBoundariesCall
    \/ GetDistanceCall
    \/ ResolveSetPieceCall

SpecUnits == InitUnits /\ [][NextUnits]_vars

-----------------------------------------------------------------------------
(* Properties *)

\* the last operation was a simulate_step
Stepped == last.op = "simulate_step"

\* the last operation was simulate_step("PASS", target) with a target
PassStepped == Stepped /\ last.action = "PASS" /\ last.target_pos # None

\* the result field of an event, "none" when the event has none
ResultOf(event) == IF "result" \in DOMAIN event THEN event.result ELSE "none"

\* the team that is not t
OtherTeam(t) == CHOOSE u \in Teams : u # t

\* p lies on the pitch, its lines included
InPitch(p) == 0 <= p[1] /\ p[1] <= 210 /\ 0 <= p[2] /\ p[2] <= 136

\* C1 as stated: after a PASS with a target exactly one of (a) result
\* SUCCESS and ball.position = target, (b) result INTERCEPTED, ball.position
\* = the interceptor's position and possession_team = the team defending
\* before the step, holds -- for every target and defender placement.
C1_PassOutcomeBallAfterStep ==
    PassStepped =>
        LET a == /\ ResultOf(last.event) = "SUCCESS"
                 /\ ball = last.target_pos
            b == /\ ResultOf(last.event) = "INTERCEPTED"
                 /\ ball = last.interceptor_pos
                 /\ possession_team = OtherTeam(last.possession_before)
        IN  (a \/ b) /\ ~(a /\ b)

\* C1 amended: after a PASS with a target exactly one of (a) result SUCCESS
\* and the action phase moved the ball to the target, (b) result
\* INTERCEPTED, the action phase moved the ball to the interceptor's
\* position and possession_team = the team defending before the step, holds;
\* ball.position after the step is that position when it lies on the pitch
\* and the position returned by resolve_set_piece when it does not.
C1_PassOutcome ==
    PassStepped =>
        LET a == /\ ResultOf(last.event) = "SUCCESS"
                 /\ last.ball_action = last.target_pos
            b == /\ ResultOf(last.event) = "INTERCEPTED"
                 /\ last.ball_action = last.interceptor_pos
                 /\ possession_team = OtherTeam(last.possession_before)
        IN  /\ (a \/ b) /\ ~(a /\ b)
            /\ InPitch(last.ball_action) => ball = last.ball_action
            /\ ~InPitch(last.ball_action) =>
                  /\ last.resolved # None
                  /\ ball = last.resolved

\* a pass intercepted by a defender standing outside the pitch
C1_Witness ==
    /\ PassStepped
    /\ ResultOf(last.event) = "INTERCEPTED"
    /\ ~InPitch(last.interceptor_pos)
    /\ ball # last.interceptor_pos

\* C2: the length of the event log equals the number of simulate_step calls
\* made since the last reset() or since construction.
C2_LogLengthIsCallCount == Len(events) = calls

\* as many steps as the bound allows, one of them a no-op
C2_Witness ==
    /\ calls = MaxEvents
    /\ \E i \in 1..Len(events) : ResultOf(events[i]) = "none"
    /\ \E i \in 1..Len(events) : ResultOf(events[i]) = "INTERCEPTED"

\* C3: reset() leaves ball.position = [52.5, 34.0], possession_team =
\* home_team, game_state = OPEN_PLAY and an empty log as returned by
\* get_training_data(), whatever the state it is called in.
C3_ResetRestores ==
    last.op = "reset" =>
        /\ ball = <<105, 68>>
        /\ possession_team = HomeTeam
        /\ game_state = "OPEN_PLAY"
        /\ get_training_data = <<>>

\* a reset() called during a CORNER state
C3_Witness ==
    /\ last.op = "reset"
    /\ last.game_state_before = "CORNER"

\* a direct call of check_interception has returned
InterceptionChecked == probe.op = "check_interception" /\ probe.done

\* defender i of the call is closer than the radius to the pass segment
Qualifies(i) ==
    LET d == GetDistancePointToSegment(probe.defenders[i], probe.pass_start,
                                       probe.pass_end)
    IN  d.num < probe.interception_radius * probe.interception_radius * d.den

\* defender i of the call is at the radius exactly
AtRadius(i) ==
    LET d == GetDistancePointToSegment(probe.defenders[i], probe.pass_start,
                                       probe.pass_end)
    IN  d.num = probe.interception_radius * probe.interception_radius * d.den

BoundariesChecked == probe.op = "check_boundaries" /\ probe.done

\* C5: check_boundaries returns OPEN_PLAY for every point with 0 <= x <= 105
\* and 0 <= y <= 68, lines and corners included, and another state for
\* every point outside.
C5_OpenPlayIffInPitch ==
    BoundariesChecked =>
        (probe.result = "OPEN_PLAY" <=> InPitch(<<probe.ball_x, probe.ball_y>>))

\* the corner point (105, 68) is in play
C5_Witness ==
    /\ BoundariesChecked
    /\ probe.ball_x = 210 /\ probe.ball_y = 136
    /\ probe.result = "OPEN_PLAY"

\* check_boundaries(x, y) can return state
CanClassify(x, y, state) ==
    /\ probe' = [op |-> "check_boundaries", done |-> TRUE, ball_x |-> x, ball_y |-> y,
                 result |-> state]
    /\ \E coin \in CoinDraws(x) : CheckBoundaries(x, y, coin) = state
    /\ UNCHANGED simvars

\* C6: outside the pitch the goal line decides first: x > 105 gives CORNER
\* or GOAL_KICK (both possible) for every y, x < 0 gives CORNER for every y,
\* and THROW_IN is returned exactly when 0 <= x <= 105 and y is outside
\* [0, 68].
C6_GoalLineFirst ==
    /\ BoundariesChecked =>
        /\ probe.ball_x > 210 => probe.result \in {"CORNER", "GOAL_KICK"}
        /\ probe.ball_x < 0 => probe.result = "CORNER"
        /\ probe.result = "THROW_IN" <=>
              /\ 0 <= probe.ball_x /\ probe.ball_x <= 210
              /\ (probe.ball_y < 0 \/ probe.ball_y > 136)
    /\ \A x \in ProbeXs, y \in ProbeYs :
          x > 210 => /\ ENABLED CanClassify(x, y, "CORNER")
                     /\ ENABLED CanClassify(x, y, "GOAL_KICK")

\* a ball beyond the opponent's goal line and beyond a side line is a goal
\* kick
C6_Witness ==
    /\ BoundariesChecked
    /\ probe.ball_x > 210 /\ probe.ball_y > 136
    /\ probe.result = "GOAL_KICK"

\* C7: when the ball position after the action phase is classified S other
\* than OPEN_PLAY, then after the step game_state = S, the event's set_piece
\* = S and ball.position is the position resolve_set_piece returned for S
\* ((105, 0) or (105, 68) for CORNER, (5, 34) for GOAL_KICK); when it is
\* classified OPEN_PLAY, game_state = OPEN_PLAY and the event has no
\* set_piece field.
C7_SetPieceApplied ==
    Stepped =>
        IF last.new_state # "OPEN_PLAY"
        THEN /\ game_state = last.new_state
             /\ "set_piece" \in DOMAIN last.event
             /\ last.event.set_piece = last.new_state
             /\ ball = last.resolved
             /\ last.new_state = "CORNER" => ball \in {<<210, 0>>, <<210, 136>>}
             /\ last.new_state = "GOAL_KICK" => ball = <<10, 68>>
        ELSE /\ game_state = "OPEN_PLAY"
             /\ "set_piece" \notin DOMAIN last.event

\* a step that ends in a corner at (105, 68), taken during a goal kick
C7_Witness ==
    /\ Stepped
    /\ last.new_state = "CORNER"
    /\ last.event.game_state = "GOAL_KICK"
    /\ ball = <<210, 136>>

\* C8: a step that ends with the ball classified THROW_IN leaves the ball
\* where the action phase put it: ball.position and the event's
\* ball_pos_after are that out-of-bounds position.
C8_ThrowInLeavesBall ==
    (Stepped /\ last.new_state = "THROW_IN") =>
        /\ ball = last.ball_action
        /\ last.event.ball_pos_after = last.ball_action

\* C10: possession_team after a step differs from possession_team before it
\* iff the event's result is INTERCEPTED.
C10_PossessionFlipsIffIntercepted ==
    /\ Stepped =>
        /\ possession_team # last.possession_before
              <=> ResultOf(last.event) = "INTERCEPTED"
        /\ last.event.possession_after = possession_team
        /\ last.event.possession_before = last.possession_before
    /\ \A i \in 1..Len(events) :
          events[i].possession_after # events[i].possession_before
              <=> ResultOf(events[i]) = "INTERCEPTED"

\* the away team loses the ball to the home team by an interception
C10_Witness ==
    /\ Stepped
    /\ ResultOf(last.event) = "INTERCEPTED"
    /\ last.possession_before = AwayTeam
    /\ possession_team = HomeTeam

\* the last operation was simulate_step(action, target) with a target
ActionStepped(action) ==
    Stepped /\ last.action = action /\ last.target_pos # None

\* some player of the team defending before the last step stood within the
\* interception radius of the straight path from the ball to the target
DefenderOnPath ==
    \E i \in 1..2 :
        DistLess(GetDistancePointToSegment(
                     last.position_before[Players(last.defending_team)[i]],
                     last.ball_before, last.target_pos),
                 InterceptionRadius)

\* C11: a SHOOT or a DRIBBLE with a target is never intercepted: wherever
\* the defenders stand, the result is SHOT (DRIBBLE), the event records no
\* interceptor, possession is what it was before the step, and the ball is
\* at the target when the boundary check runs.
C11_ShotAndDribbleNotIntercepted ==
    \A action \in {"SHOOT", "DRIBBLE"} :
        ActionStepped(action) =>
            /\ ResultOf(last.event) = (IF action = "SHOOT" THEN "SHOT" ELSE "DRIBBLE")
            /\ "interceptor" \notin DOMAIN last.event
            /\ possession_team = last.possession_before
            /\ last.event.possession_after = last.possession_before
            /\ last.ball_action = last.target_pos
            /\ last.interceptor_pos = None

\* a shot was taken past a defender standing on its path
C11_Witness ==
    /\ ActionStepped("SHOOT")
    /\ DefenderOnPath
    /\ ResultOf(last.event) = "SHOT"

\* the last operation was a simulate_step that matches no branch of the
\* action handling: an action of an unknown kind, or PASS, SHOOT or DRIBBLE
\* without a target
NoOpStepped ==
    /\ Stepped
    /\ \/ last.action \notin {"PASS", "SHOOT", "DRIBBLE"}
       \/ last.target_pos = None

\* C12 as stated: a step with an unknown action, or with PASS, SHOOT or
\* DRIBBLE and no target, records no result and leaves ball.position after
\* the step equal to ball.position before it -- for every ball position the
\* caller staged before the call.
C12_NoOpLeavesBallAnywhere ==
    NoOpStepped =>
        /\ "result" \notin DOMAIN last.event
        /\ ball = last.ball_before

\* C12, amended: such a step records no result and its action phase leaves
\* the ball where it was; ball.position after the step equals
\* ball.position before it whenever that position lies on the pitch, and a
\* ball staged off the pitch leaves the step at the position the set piece
\* gives it.
C12_NoOpLeavesBallOnPitch ==
    NoOpStepped =>
        /\ "result" \notin DOMAIN last.event
        /\ "interceptor" \notin DOMAIN last.event
        /\ last.ball_action = last.ball_before
        /\ last.event.ball_pos_before = last.ball_before
        /\ InPitch(last.ball_before) =>
               /\ ball = last.ball_before
               /\ last.event.ball_pos_after = last.ball_before
        /\ ~InPitch(last.ball_before) =>
               /\ last.new_state # "OPEN_PLAY"
               /\ ball = last.resolved
               /\ last.event.ball_pos_after = last.resolved

\* a step with an unknown action and a target left a staged ball in place
C12_Witness ==
    /\ NoOpStepped
    /\ last.action = "TACKLE"
    /\ last.target_pos # None
    /\ last.ball_before \in StagedBalls
    /\ ball = last.ball_before

\* C13: no operation ends in an error: in every reachable state every
\* simulate_step call -- any action string, target present or missing --
\* runs to its end, and the event it returns is the one it appended to the
\* log; reset() and get_training_data() run to their end too.  (The model
\* stops logging at MaxEvents events.)
C13_NoOperationFails ==
    /\ \A c \in StepCalls :
           Len(events) < MaxEvents => ENABLED SimulateStep(c[1], c[2])
    /\ ENABLED Reset
    /\ ENABLED GetTrainingData
    /\ Stepped =>
           /\ events # <<>>
           /\ events[Len(events)] = last.event
           /\ last.event.action = last.action

\* a PASS without a target, made with the ball staged off the pitch, was
\* logged
C13_Witness ==
    /\ Stepped
    /\ last.action = "PASS"
    /\ last.target_pos = None
    /\ ~InPitch(last.ball_before)
    /\ events[Len(events)] = last.event

\* C14 as stated: get_training_data() returns the whole log, and nothing
\* the caller does with the returned value changes the simulator's event
\* log.
C14_ReturnedIsReadOnlyView ==
    /\ last.op = "get_training_data" => last.value = events
    /\ last.op = "append_to_returned" => events = last.events_before

\* log s is a prefix of log t: t holds every event of s, unchanged in every
\* field, at the index it has in s
IsPrefix(s, t) == Len(s) <= Len(t) /\ SubSeq(t, 1, Len(s)) = s

\* C15: the event log is append-only between resets: across every operation
\* other than reset() -- a simulate_step, or the caller moving the ball; a
\* step that moves players included -- the log before is a prefix of the
\* log after, so every logged event keeps its fields (ball_pos_before and
\* ball_pos_after too) and its index.
C15_LogAppendOnly ==
    [][last'.op # "reset" => IsPrefix(events, events')]_vars

\* two events are logged; the caller moved the ball between the two steps
\* and the second step moved players, and the first event still shows the
\* ball where its own step left it
C15_Witness ==
    /\ Stepped
    /\ Len(events) = 2
    /\ events[2].ball_pos_before # events[1].ball_pos_after
    /\ position # last.position_before
    /\ events[1].ball_pos_after # ball

\* C16: reset() leaves the position of every player of both teams as it
\* was, also when an earlier corner has scrambled the players: of the
\* simulator's state it changes only the ball, the possession, the game
\* state and the event log.
C16_ResetKeepsPlayers ==
    [][last'.op = "reset" => position' = position]_vars

\* reset() was called with players standing where a corner had put them
C16_Witness ==
    /\ last.op = "reset"
    /\ \E p \in AllPlayers : position[p] \in ScramblePositions
    /\ position["Away_GK"] = <<M(104), M(34)>>
    /\ ball = BallDefault
    /\ events = <<>>

\* a direct call of get_distance_point_to_segment has returned
DistanceChecked == probe.op = "get_distance_point_to_segment" /\ probe.done

Min(x, y) == IF x <= y THEN x ELSE y

Max(x, y) == IF x >= y THEN x ELSE y

\* p lies on the segment [a, b]: on the line through a and b (or at a = b)
\* and inside the box the two ends span
OnSegment(p, a, b) ==
    /\ (p[1] - a[1]) * (b[2] - a[2]) = (p[2] - a[2]) * (b[1] - a[1])
    /\ Min(a[1], b[1]) <= p[1] /\ p[1] <= Max(a[1], b[1])
    /\ Min(a[2], b[2]) <= p[2] /\ p[2] <= Max(a[2], b[2])

\* the perpendicular foot of p on the line through a # b falls inside [a, b]
FootInside(p, a, b) ==
    /\ a # b
    /\ 0 <= Dot(Sub(p, a), Sub(b, a))
    /\ Dot(Sub(p, a), Sub(b, a)) <= Dot(Sub(b, a), Sub(b, a))

\* C17: for every p on the segment [a, b] the distance is 0, and for every
\* p whose perpendicular foot falls inside the segment the distance is the
\* perpendicular offset of p from the line: by Pythagoras its square is
\* |ap|^2 less the square of the projection of ap on ab, which on a
\* horizontal or upright lane is the difference of the other coordinate
\* (p = [5, 0], a = [0, 5], b = [10, 5] gives 5).
C17_DistanceInsideSegment ==
    DistanceChecked =>
        LET p == probe.p
            a == probe.a
            b == probe.b
            d == probe.result
            ab == Sub(b, a)
            ap == Sub(p, a)
        IN  /\ d.den > 0
            /\ OnSegment(p, a, b) => d.num = 0
            /\ FootInside(p, a, b) =>
                   /\ d.num * Dot(ab, ab)
                          = (Dot(ap, ap) * Dot(ab, ab) - Dot(ap, ab) * Dot(ap, ab)) * d.den
                   /\ ab[2] = 0 => d.num = ap[2] * ap[2] * d.den
                   /\ ab[1] = 0 => d.num = ap[1] * ap[1] * d.den

\* the call of test_distance_point_perpendicular returned 5 m
C17_Witness ==
    /\ DistanceChecked
    /\ probe.p = <<M(5), 0>>
    /\ probe.a = <<0, M(5)>>
    /\ probe.b = <<M(10), M(5)>>
    /\ FootInside(probe.p, probe.a, probe.b)
    /\ probe.result.num = M(5) * M(5) * probe.result.den

\* C18: for every p whose projection on the line falls outside the segment
\* the distance is the distance to the nearer end, and for a = b it is the
\* distance from p to a, computed without a division by zero.
C18_DistanceOutsideSegment ==
    DistanceChecked =>
        LET p == probe.p
            a == probe.a
            b == probe.b
            d == probe.result
            da == Dot(Sub(p, a), Sub(p, a))
            db == Dot(Sub(p, b), Sub(p, b))
        IN  /\ d.den > 0
            /\ (a # b /\ ~FootInside(p, a, b)) => d.num = Min(da, db) * d.den
            /\ a = b => d.num = da * d.den

\* the call of test_distance_point_beyond_segment returned 5 m, the
\* distance to the end b
C18_Witness ==
    /\ DistanceChecked
    /\ probe.p = <<M(15), M(5)>>
    /\ probe.a = <<0, M(5)>>
    /\ probe.b = <<M(10), M(5)>>
    /\ ~FootInside(probe.p, probe.a, probe.b)
    /\ probe.result.num = M(5) * M(5) * probe.result.den

\* the last step classified the ball as out and resolved a set piece;
\* last.attacking_team and last.defending_team are the teams it passed to
\* resolve_set_piece
SetPieceResolved == Stepped /\ last.new_state # "OPEN_PLAY"

\* C19 as stated: whenever simulate_step resolves a set piece, the team
\* passed as attacking is the team in possession at that moment and the
\* team passed as defending is the other team -- also in a step whose pass
\* was intercepted before the boundary check.
C19_SetPieceTeams ==
    SetPieceResolved =>
        /\ last.attacking_team = possession_team
        /\ last.defending_team = OtherTeam(possession_team)
        /\ last.defending_team # last.attacking_team

\* a direct call of resolve_set_piece has returned
SetPieceCalled == probe.op = "resolve_set_piece" /\ probe.done

\* the roster of a team, as a set of player names
Roster(team) == {Players(team)[i] : i \in 1..Len(Players(team))}

\* q lies in the box 95 <= x <= 104, 20 <= y <= 48
InCornerBox(q) ==
    /\ M(95) <= q[1] /\ q[1] <= M(104)
    /\ M(20) <= q[2] /\ q[2] <= M(48)

\* C20: after resolve_set_piece('CORNER', attacking, defending) with two
\* distinct teams the returned ball position is [105, 0] or [105, 68],
\* every attacking player who is not a goalkeeper stands in the box
\* 95 <= x <= 104, 20 <= y <= 48, the defending goalkeeper stands at
\* [104, 34] and every other defending player stands in the same box.
C20_CornerPositions ==
    (/\ SetPieceCalled
     /\ probe.state = "CORNER"
     /\ probe.attacking_team # probe.defending_team) =>
        /\ probe.ball_pos \in {<<M(105), 0>>, <<M(105), M(68)>>}
        /\ \A p \in Roster(probe.attacking_team) :
               PositionRole(p) # "GK" => InCornerBox(position[p])
        /\ \A p \in Roster(probe.defending_team) :
               IF PositionRole(p) = "GK"
               THEN position[p] = <<M(104), M(34)>>
               ELSE InCornerBox(position[p])

\* a corner for the home team against the away team put the away
\* goalkeeper on the line and a field player of either team at an end of
\* the box
C20_Witness ==
    /\ SetPieceCalled
    /\ probe.state = "CORNER"
    /\ probe.attacking_team = HomeTeam
    /\ probe.defending_team = AwayTeam
    /\ probe.ball_pos = <<M(105), M(68)>>
    /\ position["Home_P1"] = <<M(95), M(20)>>
    /\ position["Away_P1"] = <<M(104) - 1, M(48) - 1>>
    /\ position["Away_GK"] = <<M(104), M(34)>>
    /\ probe.position_before["Away_GK"] # <<M(104), M(34)>>

\* C21: resolve_set_piece('GOAL_KICK', attacking, defending) returns the
\* ball position [5, 34] and leaves the position of every player of both
\* teams as it was, whichever team is passed as attacking and as defending.
C21_GoalKickKeepsPlayers ==
    (SetPieceCalled /\ probe.state = "GOAL_KICK") =>
        /\ probe.ball_pos = <<M(5), M(34)>>
        /\ \A t \in Teams : \A p \in Roster(t) :
               position[p] = probe.position_before[p]

\* a goal kick was resolved for the away team against the home team
C21_Witness ==
    /\ SetPieceCalled
    /\ probe.state = "GOAL_KICK"
    /\ probe.attacking_team = AwayTeam
    /\ probe.defending_team = HomeTeam
    /\ probe.ball_pos = <<M(5), M(34)>>
    /\ position = probe.position_before

\* C22: the ball's position is a value copy, never a live alias: the ball
\* shares its position list with no player and with no target argument, and
\* a later change, made in place by the caller, of the interceptor's (or any
\* player's) position or of the target coordinates the caller passed in
\* changes neither ball.position nor a logged event.
C22_BallPositionIsCopy ==
    [][/\ ball_alias' = NoAlias
       /\ last'.op \in {"move_player", "edit_target"} =>
              /\ ball' = ball
              /\ events' = events]_vars

\* the caller moved the player who intercepted the last pass, and the ball
\* stays where that player stood
C22_Witness ==
    /\ last.op = "move_player"
    /\ events # <<>>
    /\ ResultOf(events[Len(events)]) = "INTERCEPTED"
    /\ events[Len(events)].interceptor = last.player
    /\ ball = events[Len(events)].ball_pos_after
    /\ position[last.player] # ball

\* C23: the SetPieceManager never advances its own state: game_state
\* changes only in a simulate_step or a reset() of the simulator, so a
\* direct call of check_boundaries or of resolve_set_piece -- which is no
\* operation of the simulator and leaves the history unchanged -- leaves
\* game_state as it was, whatever its arguments and its result.
C23_ManagerKeepsGameState ==
    [][game_state' # game_state =>
           /\ last' # last
           /\ last'.op \in {"simulate_step", "reset"}]_vars

\* check_boundaries returned CORNER and the manager is still in OPEN_PLAY
C23_Witness ==
    /\ BoundariesChecked
    /\ probe.result = "CORNER"
    /\ game_state = "OPEN_PLAY"

\* C24: every event records the pre-state of its own step: ball_pos_before,
\* possession_before and game_state are the values held when simulate_step
\* was called (so a step that causes a set piece is stamped with the state
\* before it); the first event after construction or reset() is stamped
\* OPEN_PLAY with possession_before = home; and of two consecutive steps
\* with no caller change in between, the later event's ball_pos_before and
\* possession_before are the earlier event's ball_pos_after and
\* possession_after.
C24_EventRecordsPreState ==
    [][/\ events' # <<>> =>
              /\ events'[1].game_state = "OPEN_PLAY"
              /\ events'[1].possession_before = HomeTeam
       /\ last'.op = "simulate_step" =>
              LET e == events'[Len(events')]
              IN  /\ e.ball_pos_before = ball
                  /\ e.possession_before = possession_team
                  /\ e.game_state = game_state
                  /\ Stepped =>
                         /\ e.ball_pos_before = events[Len(events)].ball_pos_after
                         /\ e.possession_before = events[Len(events)].possession_after]_vars

\* two consecutive steps each ended in a set piece: the second event is
\* stamped with the state the first step left, not with its own
C24_Witness ==
    /\ Stepped
    /\ Len(events) = 2
    /\ "set_piece" \in DOMAIN events[1]
    /\ "set_piece" \in DOMAIN events[2]
    /\ events[2].game_state = events[1].set_piece
    /\ events[2].game_state # events[2].set_piece
    /\ events[1].game_state = "OPEN_PLAY"
    /\ events[2].ball_pos_before = events[1].ball_pos_after
    /\ events[2].possession_before = events[1].possession_after

\* C25: after every simulate_step -- whatever the action, the target and
\* the ball position staged before the call -- ball.position lies inside
\* the pitch, 0 <= x <= 105 and 0 <= y <= 68: a ball that left the pitch
\* has been put back by the set piece of the same step, for CORNER,
\* GOAL_KICK and THROW_IN alike.
C25_BallInPitchAfterStep ==
    Stepped =>
        /\ 0 <= ball[1] /\ ball[1] <= PitchLength
        /\ 0 <= ball[2] /\ ball[2] <= PitchWidth
        /\ last.event.ball_pos_after = ball
        /\ ~InPitch(last.ball_action) =>
               /\ last.new_state \in {"CORNER", "GOAL_KICK", "THROW_IN"}
               /\ ball = last.resolved

\* a step that began with the ball staged off the pitch sent it over the
\* side line, and the throw-in left it inside the pitch
C25_Witness ==
    /\ Stepped
    /\ ~InPitch(last.ball_before)
    /\ ~InPitch(last.ball_action)
    /\ last.new_state = "THROW_IN"
    /\ InPitch(ball)

\* C26: after every simulate_step game_state is the set_piece field of the
\* event just appended when the event has one and OPEN_PLAY when it has
\* none; so no CORNER, GOAL_KICK or THROW_IN survives a step that keeps the
\* ball in the pitch, and a no-op step taken right after a set piece brings
\* game_state back to OPEN_PLAY.
C26_GameStateIsSetPieceField ==
    Stepped =>
        LET e == events[Len(events)]
        IN  /\ "set_piece" \in DOMAIN e => game_state = e.set_piece
            /\ "set_piece" \notin DOMAIN e => game_state = "OPEN_PLAY"
            /\ InPitch(last.ball_action) =>
                   /\ "set_piece" \notin DOMAIN e
                   /\ game_state = "OPEN_PLAY"
            /\ (NoOpStepped /\ Len(events) > 1
                  /\ e.ball_pos_before = events[Len(events) - 1].ball_pos_after) =>
                   game_state = "OPEN_PLAY"

\* a no-op step taken right after a step that ended in a set piece: the
\* event is stamped with the set piece and game_state is OPEN_PLAY again
C26_Witness ==
    /\ NoOpStepped
    /\ Len(events) = 2
    /\ "set_piece" \in DOMAIN events[1]
    /\ events[2].game_state = events[1].set_piece
    /\ events[2].ball_pos_before = events[1].ball_pos_after
    /\ "set_piece" \notin DOMAIN events[2]
    /\ game_state = "OPEN_PLAY"

\* C27: in every logged event the interceptor field is present if and only
\* if result is INTERCEPTED, and the player it names is on the roster of
\* the team named in possession_after and not on the roster of the team
\* named in possession_before (the two teams have distinct names and
\* rosters).
C27_InterceptorIffIntercepted ==
    \A i \in 1..Len(events) :
        LET e == events[i]
        IN  /\ ("interceptor" \in DOMAIN e) <=> (ResultOf(e) = "INTERCEPTED")
            /\ "interceptor" \in DOMAIN e =>
                   /\ e.interceptor \in Roster(e.possession_after)
                   /\ e.interceptor \notin Roster(e.possession_before)

\* the log holds a pass the away team intercepted and then a pass the home
\* team intercepted
C27_Witness ==
    /\ Len(events) = 2
    /\ ResultOf(events[1]) = "INTERCEPTED"
    /\ events[1].interceptor = "Away_P1"
    /\ events[1].possession_after = AwayTeam
    /\ ResultOf(events[2]) = "INTERCEPTED"
    /\ events[2].interceptor \in Roster(HomeTeam)
    /\ events[2].possession_after = HomeTeam

\* player p stands where the CORNER branch puts a player of the defending
\* team: the goalkeeper on [104, 34], any other player in the box
AtDefenderSpot(p) ==
    IF PositionRole(p) = "GK" THEN position[p] = <<M(104), M(34)>>
    ELSE InCornerBox(position[p])

\* C28 as stated: in every simulate_step that ends in a CORNER the
\* goalkeeper of the team in possession at the end of the step keeps the
\* position they had before the step, and at least one player of the team
\* not in possession is repositioned (moved, or standing where the corner
\* puts a defender).
C28_AttackingKeeperStays ==
    (Stepped /\ last.new_state = "CORNER") =>
        /\ \A p \in Roster(possession_team) :
               PositionRole(p) = "GK" => position[p] = last.position_before[p]
        /\ \E p \in Roster(OtherTeam(possession_team)) :
               \/ position[p] # last.position_before[p]
               \/ AtDefenderSpot(p)

\* C29: simulate_step changes player positions only when the step's event
\* is stamped set_piece = CORNER: a step that stays in OPEN_PLAY or ends in
\* GOAL_KICK or THROW_IN -- intercepted passes and dribbles included --
\* leaves the position of every player of both teams as it was.
C29_PlayersMoveOnlyOnCorner ==
    Stepped =>
        LET corner == /\ "set_piece" \in DOMAIN last.event
                      /\ last.event.set_piece = "CORNER"
        IN  /\ ~corner =>
                   \A t \in Teams : \A p \in Roster(t) :
                       position[p] = last.position_before[p]
            /\ position # last.position_before => corner

\* an intercepted pass ended in a goal kick and no player has moved
C29_Witness ==
    /\ Stepped
    /\ ResultOf(last.event) = "INTERCEPTED"
    /\ "set_piece" \in DOMAIN last.event
    /\ last.event.set_piece = "GOAL_KICK"
    /\ position = last.position_before

\* a team whose roster is empty
EmptyRoster(team) == Players(team) = <<>>

\* the two corner flags resolve_set_piece places the ball at
CornerFlags == {<<M(105), 0>>, <<M(105), M(68)>>}

\* C30: when the defending team's roster is empty, every PASS with a target
\* has result SUCCESS and leaves possession with the passing team; a corner
\* resolved with an empty attacking or defending roster places the ball at
\* (105, 0) or (105, 68); and with an empty roster every simulate_step call
\* completes.
C30_EmptyRosterIsSafe ==
    /\ (PassStepped /\ EmptyRoster(last.defending_team)) =>
           /\ ResultOf(last.event) = "SUCCESS"
           /\ "interceptor" \notin DOMAIN last.event
           /\ last.event.possession_after = last.possession_before
           /\ possession_team = last.possession_before
    /\ (Stepped /\ last.new_state = "CORNER"
          /\ (EmptyRoster(last.attacking_team) \/ EmptyRoster(last.defending_team))) =>
           /\ last.resolved \in CornerFlags
           /\ ball = last.resolved
           /\ last.event.ball_pos_after = last.resolved
    /\ (\E t \in Teams : EmptyRoster(t)) =>
           \A c \in StepCalls :
               Len(events) < MaxEvents => ENABLED SimulateStep(c[1], c[2])

\* a pass over the far goal line, made against a team without players, was
\* a SUCCESS and the corner that followed put the ball at a corner flag
C30_Witness ==
    /\ PassStepped
    /\ EmptyRoster(last.defending_team)
    /\ ResultOf(last.event) = "SUCCESS"
    /\ last.new_state = "CORNER"
    /\ ball \in CornerFlags
    /\ possession_team = last.possession_before

====
